---- MODULE Spec2Model ----
(***************************************************************************)
(* Model of src/src/server.js: an Express service with one liveness probe  *)
(* and three POST handlers that validate a JSON body and make at most one  *)
(* outbound HTTP call (OpenAI chat completions or the Metabase REST API).  *)
(*                                                                         *)
(* JavaScript values are tagged records.  Strings that the program        *)
(* inspects (trim, split, includes, String()) are sequences of one-        *)
(* character strings; fixed messages produced by the program or by axios  *)
(* are carried as opaque TLA+ strings under the field "msg".               *)
(***************************************************************************)
EXTENDS Integers, Sequences, FiniteSets, TLC

VARIABLES
    METABASE_URL,        \* process.env.METABASE_URL
    METABASE_API_KEY,    \* process.env.METABASE_API_KEY
    OPENAI_API_KEY,      \* process.env.OPENAI_API_KEY
    NL_SQL_MODEL,        \* process.env.NL_SQL_MODEL
    ALLOWED_DATABASES,   \* the parsed allow-list (sequence of strings)
    pc,                  \* position of the one modelled request
    route,               \* which endpoint the request went to
    req,                 \* req.body as received
    calls,               \* outbound HTTP requests issued for this request
    upstream,            \* how the outbound request settled, once it has
    responses            \* responses written for this request

vars == <<METABASE_URL, METABASE_API_KEY, OPENAI_API_KEY, NL_SQL_MODEL, ALLOWED_DATABASES,
          pc, route, req, calls, upstream, responses>>

config == <<METABASE_URL, METABASE_API_KEY, OPENAI_API_KEY, NL_SQL_MODEL, ALLOWED_DATABASES>>

----------------------------------------------------------------------------
(* Bounds *)

\* longest ALLOWED_DATABASES environment string that Init enumerates
MaxEnvLen == 3

----------------------------------------------------------------------------
(* JavaScript values *)

Undefined == [t |-> "undefined"]
Null == [t |-> "null"]
Num(n) == [t |-> "number", v |-> n]
Str(s) == [t |-> "string", v |-> s]
Msg(m) == [t |-> "string", msg |-> m]
Arr(a) == [t |-> "array", v |-> a]
Obj(o) == [t |-> "object", v |-> o]

\* the empty object literal {}
EmptyObj == [t |-> "object"]

\* o.k / destructuring / o?.k : a missing property reads as undefined
Get(o, k) ==
    IF o.t = "object" /\ "v" \in DOMAIN o /\ k \in DOMAIN o.v THEN o.v[k] ELSE Undefined

\* ToBoolean
Truthy(x) ==
    CASE x.t = "undefined" -> FALSE
      [] x.t = "null" -> FALSE
      [] x.t = "number" -> x.v # 0
      [] x.t = "string" -> IF "v" \in DOMAIN x THEN x.v # <<>> ELSE x.msg # ""
      [] OTHER -> TRUE

\* a || b
Or(a, b) == IF Truthy(a) THEN a ELSE b

Digit == <<"0", "1", "2", "3", "4", "5", "6", "7", "8", "9">>

RECURSIVE NatToChars(_)
NatToChars(n) ==
    IF n < 10 THEN <<Digit[n + 1]>> ELSE NatToChars(n \div 10) \o <<Digit[(n % 10) + 1]>>

RECURSIVE JoinWith(_, _)
\* Array.prototype.join on an array of character strings
JoinWith(a, sep) ==
    IF a = <<>> THEN <<>>
    ELSE IF Len(a) = 1 THEN Head(a)
    ELSE Head(a) \o sep \o JoinWith(Tail(a), sep)

RECURSIVE String(_)
\* String(x), as a sequence of characters
String(x) ==
    CASE x.t = "undefined" -> <<"u","n","d","e","f","i","n","e","d">>
      [] x.t = "null" -> <<"n","u","l","l">>
      [] x.t = "number" -> IF x.v < 0 THEN <<"-">> \o NatToChars(-x.v) ELSE NatToChars(x.v)
      [] x.t = "string" -> IF "v" \in DOMAIN x THEN x.v ELSE <<x.msg>>
      [] x.t = "array" -> JoinWith([i \in 1..Len(x.v) |-> String(x.v[i])], <<",">>)
      [] OTHER -> <<"[","o","b","j","e","c","t"," ","O","b","j","e","c","t","]">>

IsSpace(c) == c = " "

RECURSIVE TrimLeft(_)
TrimLeft(s) == IF s # <<>> /\ IsSpace(Head(s)) THEN TrimLeft(Tail(s)) ELSE s

RECURSIVE TrimRight(_)
TrimRight(s) ==
    IF s # <<>> /\ IsSpace(s[Len(s)]) THEN TrimRight(SubSeq(s, 1, Len(s) - 1)) ELSE s

\* String.prototype.trim
Trim(s) == TrimRight(TrimLeft(s))

RECURSIVE SplitFrom(_, _, _)
\* s.split(","): cur is the piece being read, i the next index
SplitFrom(s, i, cur) ==
    IF i > Len(s) THEN <<cur>>
    ELSE IF s[i] = "," THEN <<cur>> \o SplitFrom(s, i + 1, <<>>)
    ELSE SplitFrom(s, i + 1, Append(cur, s[i]))

Split(s) == SplitFrom(s, 1, <<>>)

\* a.filter(Boolean) on an array of strings
FilterNonEmpty(a) == SelectSeq(a, LAMBDA e : e # <<>>)

\* Array.prototype.includes under SameValueZero on strings
Includes(a, s) == \E i \in 1..Len(a) : a[i] = s

\* (process.env.ALLOWED_DATABASES || "").split(",").map(trim).filter(Boolean)
ParseAllowed(env) ==
    LET raw == IF Truthy(env) THEN env.v ELSE <<>>
        parts == Split(raw)
    IN  FilterNonEmpty([i \in 1..Len(parts) |-> Trim(parts[i])])

----------------------------------------------------------------------------
(* Express / axios plumbing *)

\* res.status(n).json(o): JSON.stringify drops properties whose value is undefined
Json(status, o) ==
    [status |-> status,
     body |-> [k \in {f \in DOMAIN o : o[f] # Undefined} |-> o[k]]]

\* an Error object; response is the axios response attached to HTTP failures
Error(message, response) == [message |-> message, response |-> response]

\* axios rejects a non-2xx reply with an error carrying the reply
HttpError(status, data) ==
    Error(Msg("Request failed with status code"), Obj([status |-> Num(status), data |-> data]))

\* axios rejects when the 30000 ms timeout elapses
TimeoutError == Error(Msg("timeout of 30000ms exceeded"), Undefined)

\* axios rejects when no reply can be obtained (DNS, refused connection)
NetworkError == Error(Msg("Network Error"), Undefined)

\* a TypeError thrown by the handler's own code
TypeError(what) == Error(Msg(what), Undefined)

\* the outcome of the synchronous part of a handler
Respond(r) == [kind |-> "respond", res |-> r]
Await(c) == [kind |-> "await", call |-> c]

----------------------------------------------------------------------------
(* The allow-list gate *)

\* the gate with the negation lost: listed identifiers are the ones turned away
NotAllowed_Inverted(allowed, database_id) ==
    Len(allowed) # 0 /\ Includes(allowed, String(database_id))

\* the gate without String(): a number never equals a listed string
NotAllowed_NoString(allowed, database_id) ==
    Len(allowed) # 0 /\ ~(database_id.t = "string" /\ Includes(allowed, database_id.v))

\* ALLOWED_DATABASES.length && !ALLOWED_DATABASES.includes(String(database_id))
NotAllowed(allowed, database_id) ==
    Len(allowed) # 0 /\ ~Includes(allowed, String(database_id))

----------------------------------------------------------------------------
(* callMetabase *)

\* METABASE_URL.replace(/\/$/, "")
StripTrailingSlash(s) ==
    IF s # <<>> /\ s[Len(s)] = "/" THEN SubSeq(s, 1, Len(s) - 1) ELSE s

\* the request callMetabase hands to axios
metabaseRequest(url, key, path, method, data) ==
    [target |-> "metabase",
     url |-> StripTrailingSlash(url.v) \o path,
     method |-> method,
     data |-> data,
     headers |-> [auth |-> key],
     timeout |-> 30000]

\* callMetabase that only looks at the base URL before calling
callMetabase_UrlOnly(url, key, path, method, data) ==
    IF ~Truthy(url)
    THEN [kind |-> "throw",
          err |-> Error(Msg("Metabase not configured (METABASE_URL / METABASE_API_KEY)."), Undefined)]
    ELSE Await(metabaseRequest(url, key, path, method, data))

\* callMetabase up to its await: throws when unconfigured, else issues the request
callMetabase(url, key, path, method, data) ==
    IF ~Truthy(url) \/ ~Truthy(key)
    THEN [kind |-> "throw",
          err |-> Error(Msg("Metabase not configured (METABASE_URL / METABASE_API_KEY)."), Undefined)]
    ELSE Await(metabaseRequest(url, key, path, method, data))

----------------------------------------------------------------------------
(* POST /natural_language_to_sql *)

\* x.length
Length(x) ==
    IF x.t \in {"string", "array"} /\ "v" \in DOMAIN x THEN Num(Len(x.v)) ELSE Undefined

\* the catch block of the handler
nlCatch(err) ==
    Json(500, [error |-> Msg("natural_language_to_sql failed"),
               details |-> Str(String(Or(err.message, Obj(err))))])

\* the systemPrompt array, filtered and joined by newlines
systemPrompt(schema_hint, table_hints) ==
    LET hints == IF table_hints.t = "array" THEN table_hints.v ELSE <<>>
        lines == << <<"You are a SQL assistant for Metabase, generating safe, read-only SQL for PostgreSQL.">>,
                    <<"RULES:">>,
                    <<"- Only use SELECT statements (no INSERT/UPDATE/DELETE/ALTER/DROP).">>,
                    <<"- Prefer existing tables and columns from the hints.">>,
                    <<"- Do not guess table names beyond the hints; if unsure, say you are unsure.">>,
                    <<>>,
                    IF Truthy(schema_hint) THEN <<"SCHEMA HINT:\n">> \o String(schema_hint) ELSE <<>>,
                    IF Truthy(table_hints) /\ Truthy(Length(table_hints))
                    THEN <<"TABLE HINTS: ">> \o
                         JoinWith([i \in 1..Len(hints) |-> String(hints[i])], <<", ">>)
                    ELSE <<>> >>
    IN  JoinWith(FilterNonEmpty(lines), <<"\n">>)

\* the required-field test looking at text only
nlRequiredMissing_TextOnly(text, database_id) == ~Truthy(text)

\* !text || !database_id
nlRequiredMissing(text, database_id) == ~Truthy(text) \/ ~Truthy(database_id)

\* the request the handler hands to axios.post
openaiRequest(text, schema_hint, table_hints, openaiKey, modelEnv) ==
    [target |-> "openai",
     url |-> <<"https://api.openai.com/v1/chat/completions">>,
     method |-> "POST",
     data |-> Obj([model |-> Or(modelEnv, Str(<<"gpt-4.1-mini">>)),
                   messages |-> Arr(<<
                       Obj([role |-> Msg("system"),
                            content |-> Str(systemPrompt(schema_hint, table_hints))]),
                       Obj([role |-> Msg("user"), content |-> text]) >>)]),
     headers |-> [auth |-> Str(<<"Bearer ">> \o String(openaiKey))],
     timeout |-> 30000]

\* the handler with the credential check moved ahead of the allow-list check
naturalLanguageToSql_KeyFirst(body0, allowed, openaiKey, modelEnv) ==
    LET body == Or(body0, EmptyObj)
        text == Get(body, "text")
        database_id == Get(body, "database_id")
        schema_hint == Get(body, "schema_hint")
        table_hints == Get(body, "table_hints")
    IN  IF nlRequiredMissing(text, database_id)
        THEN Respond(Json(400, [error |-> Msg("text and database_id are required")]))
        ELSE IF ~Truthy(openaiKey)
        THEN Respond(Json(500, [error |-> Msg("OPENAI_API_KEY not set on server")]))
        ELSE IF NotAllowed(allowed, database_id)
        THEN Respond(Json(400, [error |-> Msg("database_id not allowed")]))
        ELSE IF Truthy(table_hints) /\ Truthy(Length(table_hints)) /\ table_hints.t # "array"
        THEN Respond(nlCatch(TypeError("table_hints.join is not a function")))
        ELSE Await(openaiRequest(text, schema_hint, table_hints, openaiKey, modelEnv))

\* the handler from its first line to the await of axios.post
naturalLanguageToSql(body0, allowed, openaiKey, modelEnv) ==
    LET body == Or(body0, EmptyObj)
        text == Get(body, "text")
        database_id == Get(body, "database_id")
        schema_hint == Get(body, "schema_hint")
        table_hints == Get(body, "table_hints")
    IN  IF nlRequiredMissing(text, database_id)
        THEN Respond(Json(400, [error |-> Msg("text and database_id are required")]))
        ELSE IF NotAllowed(allowed, database_id)
        THEN Respond(Json(400, [error |-> Msg("database_id not allowed")]))
        ELSE IF ~Truthy(openaiKey)
        THEN Respond(Json(500, [error |-> Msg("OPENAI_API_KEY not set on server")]))
        ELSE IF Truthy(table_hints) /\ Truthy(Length(table_hints)) /\ table_hints.t # "array"
        THEN Respond(nlCatch(TypeError("table_hints.join is not a function")))
        ELSE Await(openaiRequest(text, schema_hint, table_hints, openaiKey, modelEnv))

\* a[0] under optional chaining
First(a) ==
    IF a.t = "array" /\ Len(a.v) > 0 THEN a.v[1] ELSE Undefined

\* the handler after axios.post fulfils with reply body data
nlFulfilled(body0, data) ==
    LET database_id == Get(Or(body0, EmptyObj), "database_id")
        content == Get(Get(First(Get(data, "choices")), "message"), "content")
    IN  IF data.t \in {"undefined", "null"}
        THEN nlCatch(TypeError("Cannot read properties of null (reading 'choices')"))
        ELSE IF content.t \in {"undefined", "null"}
        THEN Json(500, [error |-> Msg("No SQL generated")])
        ELSE IF content.t # "string"
        THEN nlCatch(TypeError("content.trim is not a function"))
        ELSE IF ~Truthy(Str(Trim(content.v)))
        THEN Json(500, [error |-> Msg("No SQL generated")])
        ELSE Json(200, [sql |-> Str(Trim(content.v)), database_id |-> database_id])

----------------------------------------------------------------------------
(* POST /create_question *)

\* the catch block of the handler
createCatch(err) ==
    Json(500, [error |-> Msg("create_question failed"),
               details |-> Or(Get(err.response, "data"),
                              Str(String(Or(err.message, Obj(err)))))])

\* !name || !sql || !database_id
createRequiredMissing(name, sql, database_id) ==
    ~Truthy(name) \/ ~Truthy(sql) \/ ~Truthy(database_id)

\* the card with the identifier sent in its string form
cardPayload_StringId(name, sql, database_id) ==
    Obj([name |-> name,
         display |-> Msg("table"),
         dataset_query |-> Obj([type |-> Msg("native"),
                                native |-> Obj([query |-> sql]),
                                database |-> Str(String(database_id))])])

\* the payload object literal sent to POST /api/card
cardPayload(name, sql, database_id) ==
    Obj([name |-> name,
         display |-> Msg("table"),
         dataset_query |-> Obj([type |-> Msg("native"),
                                native |-> Obj([query |-> sql]),
                                database |-> database_id])])

\* the handler from its first line to the await inside callMetabase
createQuestion(body0, allowed, url, key) ==
    LET body == Or(body0, EmptyObj)
        name == Get(body, "name")
        sql == Get(body, "sql")
        database_id == Get(body, "database_id")
        payload == cardPayload(name, sql, database_id)
        out == callMetabase(url, key, <<"/api/card">>, "POST", payload)
    IN  IF createRequiredMissing(name, sql, database_id)
        THEN Respond(Json(400, [error |-> Msg("name, sql, database_id are required")]))
        ELSE IF NotAllowed(allowed, database_id)
        THEN Respond(Json(400, [error |-> Msg("database_id not allowed")]))
        ELSE IF out.kind = "throw" THEN Respond(createCatch(out.err))
        ELSE out

\* the handler after callMetabase returns card
createFulfilled(card) ==
    IF card.t \in {"undefined", "null"}
    THEN createCatch(TypeError("Cannot read properties of null (reading 'id')"))
    ELSE Json(200, [question_id |-> Get(card, "id"),
                    name |-> Get(card, "name"),
                    url |-> IF Truthy(Get(card, "public_uuid"))
                            THEN Str(<<"/public/question/">> \o String(Get(card, "public_uuid")))
                            ELSE Str(<<"/question/">> \o String(Get(card, "id")))])

----------------------------------------------------------------------------
(* POST /get_question_results *)

\* the catch block of the handler
resultsCatch(err) ==
    Json(500, [error |-> Msg("get_question_results failed"),
               details |-> Or(Get(err.response, "data"),
                              Str(String(Or(err.message, Obj(err)))))])

\* !question_id
resultsRequiredMissing(question_id) == ~Truthy(question_id)

\* the handler from its first line to the await inside callMetabase
getQuestionResults(body0, url, key) ==
    LET body == Or(body0, EmptyObj)
        question_id == Get(body, "question_id")
        out == callMetabase(url, key,
                            <<"/api/card/">> \o String(question_id) \o <<"/query">>,
                            "POST", Obj([parameters |-> Arr(<<>>)]))
    IN  IF resultsRequiredMissing(question_id)
        THEN Respond(Json(400, [error |-> Msg("question_id is required")]))
        ELSE IF out.kind = "throw" THEN Respond(resultsCatch(out.err))
        ELSE out

\* the response without the || [] defaults
resultsFulfilled_NoDefault(data) ==
    Json(200, [cols |-> Get(Get(data, "data"), "cols"),
               rows |-> Get(Get(data, "data"), "rows"),
               raw |-> data])

\* the handler after callMetabase returns data
resultsFulfilled(data) ==
    Json(200, [cols |-> Or(Get(Get(data, "data"), "cols"), Arr(<<>>)),
               rows |-> Or(Get(Get(data, "data"), "rows"), Arr(<<>>)),
               raw |-> data])

----------------------------------------------------------------------------
(* Inputs *)

\* characters of the ALLOWED_DATABASES environment string
EnvChars == {"0", "2", ",", " "}

RECURSIVE SeqsUpTo(_, _)
\* all sequences over S of length at most n
SeqsUpTo(S, n) ==
    IF n = 0 THEN {<<>>}
    ELSE LET shorter == SeqsUpTo(S, n - 1)
         IN  shorter \cup {Append(q, c) : q \in {r \in shorter : Len(r) = n - 1}, c \in S}

\* an environment variable is unset or a string
AllowedEnvs == {Undefined} \cup {Str(q) : q \in SeqsUpTo(EnvChars, MaxEnvLen)}
UrlEnvs == {Undefined, Str(<<>>), Str(<<"http://mb">>), Str(<<"http://mb", "/">>)}
KeyEnvs == {Undefined, Str(<<"key">>)}
ModelEnvs == {Undefined, Str(<<"gpt-x">>)}

\* values a JSON body can carry for an identifier; Undefined is an absent property
Ids == {Undefined, Null, Num(0), Num(2), Num(3), Num(20), Str(<<>>), Str(<<"2">>)}
Texts == {Undefined, Str(<<>>), Str(<<"q">>)}
TableHints == {Undefined, Arr(<<Str(<<"t1">>), Str(<<"t2">>)>>), Str(<<"t1">>)}
SchemaHints == {Undefined, Str(<<"s">>)}

NlBodies ==
    {Undefined} \cup
    {Obj([text |-> x, database_id |-> d, schema_hint |-> h, table_hints |-> th]) :
        x \in Texts, d \in Ids, h \in SchemaHints, th \in TableHints}

CreateBodies ==
    {Undefined} \cup
    {Obj([name |-> n, sql |-> q, database_id |-> d]) :
        n \in {Undefined, Str(<<"Q1">>)}, q \in {Undefined, Str(<<>>), Str(<<"SELECT 1">>)}, d \in Ids}

ResultsBodies == {Undefined} \cup {Obj([question_id |-> i]) : i \in Ids}

\* reply bodies of a 2xx answer from the chat-completion API
Choice(content) == Obj([choices |-> Arr(<<Obj([message |-> Obj([content |-> content])])>>)])
OpenAIReplyBodies ==
    {Null, Str(<<>>), Obj([choices |-> Arr(<<>>)]),
     Choice(Str(<<" ", "SELECT 1", " ">>)), Choice(Str(<<" ">>)), Choice(Null), Choice(Num(5))}

\* reply bodies of a 2xx answer from POST /api/card
CardReplyBodies ==
    {Null, Str(<<>>),
     Obj([id |-> Num(7), name |-> Str(<<"Q1">>)]),
     Obj([id |-> Num(7), name |-> Str(<<"Q1">>), public_uuid |-> Str(<<"u">>)])}

Col == Obj([name |-> Str(<<"c">>)])
Row == Arr(<<Num(1)>>)
\* reply bodies of a 2xx answer from POST /api/card/{id}/query
QueryReplyBodies ==
    {Null, Obj([status |-> Msg("failed")]), Obj([data |-> Null]),
     Obj([data |-> Obj([cols |-> Arr(<<Col>>)])]),
     Obj([data |-> Obj([cols |-> Null, rows |-> Arr(<<Row>>)])]),
     Obj([data |-> Obj([cols |-> Arr(<<>>), rows |-> Arr(<<>>)])]),
     Obj([data |-> Obj([cols |-> Arr(<<Col>>), rows |-> Arr(<<Row, Row>>)])])}

\* a non-2xx answer: status and reply body (an empty body arrives as "")
ErrorStatuses == {401, 500}
ErrorBodies == {Str(<<>>), Obj([message |-> Str(<<"denied">>)])}

----------------------------------------------------------------------------
(* The state machine: one inbound request from arrival to response *)

Init ==
    /\ METABASE_URL \in UrlEnvs
    /\ METABASE_API_KEY \in KeyEnvs
    /\ OPENAI_API_KEY \in KeyEnvs
    /\ NL_SQL_MODEL \in ModelEnvs
    /\ ALLOWED_DATABASES \in {ParseAllowed(e) : e \in AllowedEnvs}
    /\ pc = "idle"
    /\ route = "none"
    /\ req = Undefined
    /\ calls = <<>>
    /\ upstream = [kind |-> "none"]
    /\ responses = <<>>

\* run a handler up to its response or its await
Start(r, body0, out) ==
    /\ pc = "idle"
    /\ route' = r
    /\ req' = body0
    /\ upstream' = upstream
    /\ IF out.kind = "respond"
       THEN pc' = "done" /\ responses' = Append(responses, out.res) /\ calls' = calls
       ELSE pc' = "awaiting" /\ calls' = Append(calls, out.call) /\ responses' = responses
    /\ UNCHANGED config

\* resume a handler when its outbound request settles
Settle(r, how, res) ==
    /\ pc = "awaiting"
    /\ route = r
    /\ upstream' = how
    /\ pc' = "done"
    /\ responses' = Append(responses, res)
    /\ UNCHANGED <<config, route, req, calls>>

\* GET /health
Health ==
    Start("health", Undefined,
          Respond(Json(200, [ok |-> [t |-> "boolean", v |-> TRUE],
                             service |-> Msg("metabase-mcp-server")])))

NaturalLanguageToSql ==
    \E b \in NlBodies :
        Start("natural_language_to_sql", b,
              naturalLanguageToSql(b, ALLOWED_DATABASES, OPENAI_API_KEY, NL_SQL_MODEL))

CreateQuestion ==
    \E b \in CreateBodies :
        Start("create_question", b,
              createQuestion(b, ALLOWED_DATABASES, METABASE_URL, METABASE_API_KEY))

GetQuestionResults ==
    \E b \in ResultsBodies :
        Start("get_question_results", b,
              getQuestionResults(b, METABASE_URL, METABASE_API_KEY))

\* the chat-completion API answers 2xx
OpenAIReplies ==
    \E d \in OpenAIReplyBodies :
        Settle("natural_language_to_sql", [kind |-> "fulfilled", data |-> d], nlFulfilled(req, d))

\* POST /api/card answers 2xx
CardCreated ==
    \E d \in CardReplyBodies :
        Settle("create_question", [kind |-> "fulfilled", data |-> d], createFulfilled(d))

\* POST /api/card/{id}/query answers 2xx
QueryReturns ==
    \E d \in QueryReplyBodies :
        Settle("get_question_results", [kind |-> "fulfilled", data |-> d], resultsFulfilled(d))

\* the catch block of the handler for route r
Catch(r, err) ==
    CASE r = "natural_language_to_sql" -> nlCatch(err)
      [] r = "create_question" -> createCatch(err)
      [] r = "get_question_results" -> resultsCatch(err)

\* the upstream answers with a non-2xx status
UpstreamRejects ==
    \E st \in ErrorStatuses, d \in ErrorBodies :
        Settle(route, [kind |-> "rejected", status |-> st, data |-> d],
               Catch(route, HttpError(st, d)))

\* the timeout elapses but the pending request is never ended
TimeoutFires_Hangs ==
    /\ pc = "awaiting"
    /\ upstream' = [kind |-> "timeout"]
    /\ UNCHANGED <<config, pc, route, req, calls, responses>>

\* no answer within 30000 ms
TimeoutFires ==
    Settle(route, [kind |-> "timeout"], Catch(route, TimeoutError))

\* the connection cannot be made
NetworkFails ==
    Settle(route, [kind |-> "network"], Catch(route, NetworkError))

Next ==
    \/ Health
    \/ NaturalLanguageToSql
    \/ CreateQuestion
    \/ GetQuestionResults
    \/ OpenAIReplies
    \/ CardCreated
    \/ QueryReturns
    \/ UpstreamRejects
    \/ TimeoutFires
    \/ NetworkFails

Spec == Init /\ [][Next]_vars

\* axios settles every request: a reply, a connection error, or the timeout
FairSpec ==
    /\ Spec
    /\ WF_vars(OpenAIReplies \/ CardCreated \/ QueryReturns \/ UpstreamRejects
               \/ TimeoutFires \/ NetworkFails)

----------------------------------------------------------------------------
(* Vocabulary of the properties *)

NL == "natural_language_to_sql"
CQ == "create_question"
GR == "get_question_results"

Body == Or(req, EmptyObj)
Field(k) == Get(Body, k)

Responded == Len(responses) >= 1
Res == responses[1]

HasError(m) == Responded /\ "error" \in DOMAIN Res.body /\ Res.body.error = Msg(m)
HasDetails(d) == Responded /\ "details" \in DOMAIN Res.body /\ Res.body.details = d

\* the allow-list as the set of its entries
Entries == {ALLOWED_DATABASES[i] : i \in DOMAIN ALLOWED_DATABASES}

\* the allow-list decision as the specification words it
Permitted(d) == Entries = {} \/ String(d) \in Entries

\* a required field that is not there at all, or is the empty string
Missing(k) == Field(k) = Undefined \/ Field(k) = Str(<<>>)

RequiredFields ==
    CASE route = NL -> {"text", "database_id"}
      [] route = CQ -> {"name", "sql", "database_id"}
      [] route = GR -> {"question_id"}
      [] OTHER -> {}

RequiredMessage ==
    CASE route = NL -> "text and database_id are required"
      [] route = CQ -> "name, sql, database_id are required"
      [] route = GR -> "question_id is required"
      [] OTHER -> ""

\* the request went through the handler's required-field check
PassedRequired == \A k \in RequiredFields : Truthy(Field(k))

MetabaseConfigured == Truthy(METABASE_URL) /\ Truthy(METABASE_API_KEY)

NotConfiguredText == Str(<<"Metabase not configured (METABASE_URL / METABASE_API_KEY).">>)

----------------------------------------------------------------------------
(* C1 *)

\* C1: on /natural_language_to_sql and /create_question, when the allow-list
\* is non-empty and String(database_id) is not one of its entries, the
\* request is answered 400 and no outbound call is ever issued for it.
C1_DisallowedRejectedWithoutCall ==
    (route \in {NL, CQ} /\ Entries # {} /\ String(Field("database_id")) \notin Entries)
        => /\ pc = "done"
           /\ calls = <<>>
           /\ Len(responses) = 1
           /\ Res.status = 400

C1_Witness ==
    /\ route = NL
    /\ ALLOWED_DATABASES = << <<"2">> >>
    /\ Field("database_id") = Num(3)
    /\ Truthy(Field("text"))
    /\ HasError("database_id not allowed")
    /\ Res.status = 400

----------------------------------------------------------------------------
(* C2 *)

\* C2: on each POST endpoint a body lacking a required field is answered 400
\* without an outbound call, whatever the allow-list and the credentials.
C2_MissingFieldRejectedWithoutCall ==
    (route \in {NL, CQ, GR} /\ \E k \in RequiredFields : Field(k) = Undefined)
        => /\ pc = "done"
           /\ calls = <<>>
           /\ Len(responses) = 1
           /\ Res.status = 400

C2_Witness ==
    /\ route = NL
    /\ Truthy(Field("text"))
    /\ Field("database_id") = Undefined
    /\ ALLOWED_DATABASES = <<>>
    /\ Truthy(OPENAI_API_KEY)
    /\ pc = "done"
    /\ Res.status = 400

----------------------------------------------------------------------------
(* C3 *)

\* C3: the allow-list gate permits every identifier when the list is empty
\* and otherwise permits exactly the identifiers whose String() form is an
\* entry; both gated handlers answer "database_id not allowed" exactly when
\* this decision denies the identifier they were given.
C3_AllowListDecision ==
    /\ \A d \in Ids : NotAllowed(ALLOWED_DATABASES, d) <=> ~Permitted(d)
    /\ (route \in {NL, CQ} /\ PassedRequired)
          => (HasError("database_id not allowed") <=> ~Permitted(Field("database_id")))

C3_Witness ==
    /\ route = CQ
    /\ PassedRequired
    /\ Field("database_id") = Num(20)
    /\ ALLOWED_DATABASES = << <<"2", "0">> >>
    /\ pc = "awaiting"
    /\ Len(calls) = 1

----------------------------------------------------------------------------
(* C4 *)

\* C4: /natural_language_to_sql checks required fields, then the allow-list,
\* then the OpenAI credential, and answers with the first check that fails:
\* a missing field gives 400 "text and database_id are required" whatever
\* else is wrong, a disallowed database_id on a request that passed the
\* first check gives 400 "database_id not allowed" even without a
\* credential, and the 500 configuration error appears only when the first
\* two checks pass.
C4_ValidationOrder ==
    route = NL =>
        /\ (Missing("text") \/ Missing("database_id"))
              => (HasError("text and database_id are required") /\ Res.status = 400)
        /\ (PassedRequired /\ ~Permitted(Field("database_id")))
              => (HasError("database_id not allowed") /\ Res.status = 400)
        /\ (PassedRequired /\ Permitted(Field("database_id")) /\ ~Truthy(OPENAI_API_KEY))
              => (HasError("OPENAI_API_KEY not set on server") /\ Res.status = 500)
        /\ HasError("OPENAI_API_KEY not set on server")
              => (PassedRequired /\ Permitted(Field("database_id")))
        /\ HasError("database_id not allowed") => PassedRequired

C4_Witness ==
    /\ route = NL
    /\ PassedRequired
    /\ ~Permitted(Field("database_id"))
    /\ ~Truthy(OPENAI_API_KEY)
    /\ HasError("database_id not allowed")
    /\ Res.status = 400

----------------------------------------------------------------------------
(* C5 *)

\* C5: on all three POST endpoints, when the upstream answers non-2xx with a
\* response body, the handler answers 500 with { error, details } where
\* details is that upstream body.
C5_UpstreamBodySurfaced ==
    (route \in {NL, CQ, GR} /\ upstream.kind = "rejected" /\ Truthy(upstream.data))
        => /\ Len(responses) = 1
           /\ Res.status = 500
           /\ "error" \in DOMAIN Res.body
           /\ HasDetails(upstream.data)

----------------------------------------------------------------------------
(* C6 *)

\* a response is either a success body or a single error body
WellFormed(r) == (r.status = 200) <=> ("error" \notin DOMAIN r.body)

\* C6: every request eventually gets exactly one response, a success body or
\* an error body, after at most one outbound call; an outbound call ended by
\* the 30-second timeout is answered with HTTP 500.
C6_ExactlyOneResponse ==
    /\ [](/\ Len(calls) <= 1
          /\ Len(responses) <= 1
          /\ (pc = "done") <=> (Len(responses) = 1)
          /\ Responded => WellFormed(Res)
          /\ upstream.kind # "none" => (pc = "done" /\ Len(calls) = 1)
          /\ upstream.kind = "timeout" => (Responded /\ Res.status = 500))
    /\ (pc # "idle") ~> (pc = "done" /\ Len(responses) = 1)

C6_Witness ==
    /\ pc = "done"
    /\ upstream.kind = "timeout"
    /\ Len(calls) = 1
    /\ Len(responses) = 1
    /\ Res.status = 500

----------------------------------------------------------------------------
(* C7 *)

\* the request passes the handler's own validation
Valid ==
    /\ PassedRequired
    /\ route \in {NL, CQ} => Permitted(Field("database_id"))

\* C7: with the Metabase base URL or credential absent, every otherwise
\* valid /create_question and /get_question_results request is answered with
\* the 500 not-configured failure and no network call; what
\* /natural_language_to_sql does is decided by its own credential check,
\* never by the Metabase configuration.
C7_NotConfigured ==
    /\ (route \in {CQ, GR} /\ Valid /\ ~MetabaseConfigured)
          => /\ pc = "done"
             /\ calls = <<>>
             /\ Len(responses) = 1
             /\ Res.status = 500
             /\ HasDetails(NotConfiguredText)
    /\ (route = NL /\ Valid)
          => /\ ~HasDetails(NotConfiguredText)
             /\ ~Truthy(OPENAI_API_KEY)
                   => (pc = "done" /\ calls = <<>> /\ HasError("OPENAI_API_KEY not set on server"))
             /\ (Truthy(OPENAI_API_KEY) /\ Field("table_hints").t # "string")
                   => (Len(calls) = 1 /\ calls[1].target = "openai")

C7_Witness ==
    /\ route = GR
    /\ Valid
    /\ Truthy(METABASE_URL)
    /\ ~Truthy(METABASE_API_KEY)
    /\ pc = "done"
    /\ calls = <<>>
    /\ Res.status = 500

----------------------------------------------------------------------------
(* C8 *)

\* the upstream payload's data.cols / data.rows when it is a sequence
Upstream(k) == Get(Get(upstream.data, "data"), k)
Expected(k) == IF Upstream(k).t = "array" THEN Upstream(k) ELSE Arr(<<>>)

\* C8: on /get_question_results, a successful upstream call is answered 200
\* with cols and rows equal to the payload's data.cols and data.rows when
\* those are there and empty otherwise, and raw equal to the payload; a
\* payload without them is never an error.
C8_ResultSetShape ==
    (route = GR /\ upstream.kind = "fulfilled")
        => /\ Len(responses) = 1
           /\ Res.status = 200
           /\ DOMAIN Res.body = {"cols", "rows", "raw"}
           /\ Res.body.cols = Expected("cols")
           /\ Res.body.rows = Expected("rows")
           /\ Res.body.raw = upstream.data

C8_Witness ==
    /\ route = GR
    /\ upstream.kind = "fulfilled"
    /\ Get(upstream.data, "data") = Undefined
    /\ Res.status = 200
    /\ Res.body.cols = Arr(<<>>)
    /\ Res.body.rows = Arr(<<>>)
    /\ Res.body.raw = upstream.data

----------------------------------------------------------------------------
(* C9 *)

\* the card payload the claim describes
CardSent ==
    /\ Len(calls) = 1
    /\ calls[1].target = "metabase"
    /\ calls[1].method = "POST"
    /\ Get(calls[1].data, "display") = Msg("table")
    /\ Get(Get(calls[1].data, "dataset_query"), "type") = Msg("native")
    /\ Get(Get(Get(calls[1].data, "dataset_query"), "native"), "query") = Field("sql")
    /\ Get(Get(calls[1].data, "dataset_query"), "database") = Field("database_id")

\* C9 as stated: every accepted /create_question request sends exactly one
\* creation call with display "table", type "native", the sql unmodified and
\* the request's database_id.
C9_AlwaysOneCreationCall ==
    (route = CQ /\ Valid) => CardSent

\* C9 amended: every accepted /create_question request, when the Metabase
\* base URL and credential are configured, sends exactly one creation call
\* with display "table", type "native", the sql unmodified and the request's
\* database_id; when they are not configured it sends none.
C9_OneCreationCallWhenConfigured ==
    (route = CQ /\ Valid)
        => /\ MetabaseConfigured => CardSent
           /\ ~MetabaseConfigured => calls = <<>>

C9_Witness ==
    /\ route = CQ
    /\ Valid
    /\ MetabaseConfigured
    /\ Field("database_id") = Num(2)
    /\ ALLOWED_DATABASES = << <<"2">> >>
    /\ CardSent

----------------------------------------------------------------------------
(* C10 *)

\* C10: the required-field check answers "... required" only when a required
\* field is undefined or the empty string; an identifier that is there, such
\* as 0, goes on to the allow-list check and the outbound call.
C10_RequiredOnlyWhenAbsent ==
    (route \in {NL, CQ, GR} /\ HasError(RequiredMessage))
        => \E k \in RequiredFields : Missing(k)

====
